---- MODULE Spec2Model ----
(***************************************************************************)
(* MailSentinel triage engine: decision resolver, audit chain, classifier  *)
(* gateway (circuit breaker), profile loader and mailbox label planning.   *)
(*                                                                         *)
(* Numbers: a confidence is an integer number of thousandths (0..1000); a  *)
(* profile weight is an integer number of tenths; a quotient of two floats *)
(* is kept as an exact fraction [num, den], den = 0 standing for NaN.      *)
(***************************************************************************)
EXTENDS Integers, Sequences, FiniteSets, TLC

VARIABLES
    rs_email,     \* resolver input: the X-Sender-Trust-Score header of the email
    rs_results,   \* resolver input: the ordered classification responses
    rs_config,    \* resolver input: the resolver configuration
    rs_decision,  \* what the latest ResolveDecision call returned
    rs_previous,  \* what the call before it returned
    au_config,    \* audit logger: [enabled, integrity_check, keyed]
    au_file,      \* the audit file: the entries on disk, in file order
    au_open,      \* the logger holds an open file handle
    au_lastHash,  \* Logger.lastHash
    au_entryCount,\* Logger.entryCount
    au_clock,     \* time.Now(), one tick per entry built
    au_tampered,  \* the file was changed by something other than the logger
    au_lost,      \* some writeEntry call returned an error
    au_verify,    \* what the latest VerifyChain / VerifyIntegrity returned
    au_workers,   \* per worker: the logging call it has in flight, if any
    cb_cfg,       \* classifier gateway: the circuit_breaker settings
    cb_state,     \* gobreaker: the stored state
    cb_counts,    \* gobreaker: Counts of the current generation
    cb_expiry,    \* gobreaker: expiry of the current generation (NoExpiry: zero time)
    cb_generation,\* gobreaker: generation number
    cb_now,       \* time.Now() in seconds
    cb_callers,   \* per caller: the ClassifyEmail call it has in flight, if any
    cb_calls,     \* ClassifyEmail calls started
    cb_epoch,     \* state changes of the breaker so far
    cb_streak,    \* failed classifier calls in a row since the breaker was last closed
    cb_begin,     \* how the latest call passed the breaker's admission
    cb_end,       \* how the latest admitted call ended
    ld_dir,       \* profile loader: the profile file of each id in the directory
    ld_readable,  \* the directory can be walked
    ld_registry,  \* Loader.registry: Profiles, Dependencies, LoadOrder
    ld_result,    \* what the latest LoadAll / Reload returned
    ld_before,    \* the registry as it was when that call was made
    ld_edits,     \* changes made to the directory since the loader was built
    pl_decision,  \* action planner: the final decision being applied to a message
    pl_labels,    \* the labels the message carries in the mailbox
    pl_start,     \* the labels it carried when the decision was made
    pl_applies,   \* applications of the decision that ran to their end
    pl_partial,   \* an application was cut short after part of its operations
    pl_replayCalls,\* ModifyLabels calls issued after the decision had been applied
    ps_output,    \* response parser: the text the model answered with
    ps_profile,   \* the response validation block of the profile classified under
    ps_result,    \* what parseClassificationResponse returned for them
    vp_profile,   \* profile validation: the profile handed to validateProfile
    vp_result     \* what validateProfile returned for it

rsVars == <<rs_email, rs_results, rs_config, rs_decision, rs_previous>>

auVars == <<au_config, au_file, au_open, au_lastHash, au_entryCount, au_clock,
            au_tampered, au_lost, au_verify, au_workers>>

cbVars == <<cb_cfg, cb_state, cb_counts, cb_expiry, cb_generation, cb_now, cb_callers,
            cb_calls, cb_epoch, cb_streak, cb_begin, cb_end>>

ldVars == <<ld_dir, ld_readable, ld_registry, ld_result, ld_before, ld_edits>>

plVars == <<pl_decision, pl_labels, pl_start, pl_applies, pl_partial, pl_replayCalls>>

psVars == <<ps_output, ps_profile, ps_result>>

vpVars == <<vp_profile, vp_result>>

vars == <<rs_email, rs_results, rs_config, rs_decision, rs_previous,
          au_config, au_file, au_open, au_lastHash, au_entryCount, au_clock,
          au_tampered, au_lost, au_verify, au_workers,
          cb_cfg, cb_state, cb_counts, cb_expiry, cb_generation, cb_now, cb_callers,
          cb_calls, cb_epoch, cb_streak, cb_begin, cb_end,
          ld_dir, ld_readable, ld_registry, ld_result, ld_before, ld_edits,
          pl_decision, pl_labels, pl_start, pl_applies, pl_partial, pl_replayCalls,
          ps_output, ps_profile, ps_result,
          vp_profile, vp_result>>

\* what the actions of one component leave alone: the other components
rsFrame == UNCHANGED <<auVars, cbVars, ldVars, plVars, psVars, vpVars>>
auFrame == UNCHANGED <<rsVars, cbVars, ldVars, plVars, psVars, vpVars>>
cbFrame == UNCHANGED <<rsVars, auVars, ldVars, plVars, psVars, vpVars>>
ldFrame == UNCHANGED <<rsVars, auVars, cbVars, plVars, psVars, vpVars>>
plFrame == UNCHANGED <<rsVars, auVars, cbVars, ldVars, psVars, vpVars>>
psFrame == UNCHANGED <<rsVars, auVars, cbVars, ldVars, plVars, vpVars>>
vpFrame == UNCHANGED <<rsVars, auVars, cbVars, ldVars, plVars, psVars>>

(***************************************************************************)
(* Bounds of the model.                                                    *)
(***************************************************************************)
MaxResults == 2      \* longest list of classification responses
MaxAuditOps == 3     \* entries built by one audit scenario after the genesis entry
MaxCalls == 7        \* ClassifyEmail calls started in one gateway scenario
MaxTime == 6         \* seconds one gateway scenario lasts
MaxEdges == 3        \* inherits_from and depends_on entries in one profile directory
MaxEdits == 1        \* changes made to a profile directory between loads
MaxStartEdges == 1   \* inherits_from and depends_on entries in a directory before it changes
MaxApplies == 2      \* times one decision is applied to its message to the end

(***************************************************************************)
(* Generic helpers.                                                        *)
(***************************************************************************)
Range(f) == {f[x] : x \in DOMAIN f}

\* every order in which a Go `range` over a map with key set S can visit it
Perms(S) == {f \in [1..Cardinality(S) -> S] : \A i, j \in DOMAIN f : f[i] = f[j] => i = j}

SeqsUpTo(S, n) == UNION {[1..k -> S] : k \in 0..n}

Min(a, b) == IF a < b THEN a ELSE b

Rat(n, d) == [num |-> n, den |-> d]

\* float64 `a > b`; false as soon as one side is NaN
RatGT(a, b) == a.den # 0 /\ b.den # 0 /\ a.num * b.den > b.num * a.den

\* the same float value (NaN taken as one value)
RatSame(a, b) ==
    IF a.den = 0 \/ b.den = 0 THEN a.den = b.den ELSE a.num * b.den = b.num * a.den

(***************************************************************************)
(* Decision resolver (internal/resolver/resolver.go).                      *)
(***************************************************************************)
One == 1000                      \* confidence 1.0 in thousandths

Actions == {"none", "star", "archive", "label:x"}
ConfLevels == {820, 900}

\* the i-th response of a message comes from the i-th profile
MkResponse(p, a, c, ph, imp) ==
    [profile |-> p, action |-> a, conf |-> c, phishing |-> ph, importance |-> imp,
     reasoning |-> <<"model", p>>]

\* responses a profile p can return: every action at every level without
\* metadata, the stub of a failed classification (none @ 0), one response
\* carrying a phishing score and one marked critical
ResponseMenu(p) ==
    {MkResponse(p, a, c, -1, "") : a \in Actions, c \in ConfLevels}
    \cup {MkResponse(p, "none", 0, -1, ""), MkResponse(p, "archive", 900, 900, ""),
          MkResponse(p, "star", 820, -1, "critical")}

ResultLists ==
    {rs \in UNION {[1..k -> UNION {ResponseMenu(p) : p \in 1..k}] : k \in 0..MaxResults} :
        \A i \in DOMAIN rs : rs[i].profile = i}

MkRule(n, c, a, b, p, r) ==
    [name |-> n, condition |-> c, action |-> a, boost |-> b, priority |-> p, reason |-> r]

\* the priority rules of the documented resolver configuration
DocRules ==
    << MkRule("security_override", {"phishing"}, "archive", 0, 1000, "Security threat detected"),
       MkRule("importance_override", {"importance"}, "star", 0, 900, "Critical importance override"),
       MkRule("trusted_sender_boost", {"trusted"}, "", 100, 800, "") >>

\* two rules of equal priority on the same condition, and one below them
TiedRules ==
    << MkRule("low", {"phishing"}, "label:x", 0, 100, "low"),
       MkRule("first", {"phishing", "importance"}, "archive", 0, 500, "first"),
       MkRule("second", {"phishing"}, "star", 0, 500, "second") >>

\* a rule that declares an action and a confidence boost
BoostRules ==
    << MkRule("critical_boost", {"importance"}, "star", 100, 900, "Critical importance boost") >>

RuleMenus == {<< >>, DocRules, TiedRules, BoostRules}

\* profile weights in tenths: none configured; or 0 for profile 1 and 1.2 for profile 2
WeightMenus == {<< >>, (1 :> 0 @@ 2 :> 12)}

Methods == {"highest_confidence", "consensus", "weighted_average", ""}

ResolverConfigs ==
    [method : Methods, weights : WeightMenus, rules : RuleMenus]

TrustHeaders == {"", "0.95"}

\* evaluateCondition: the three recognised sub-expressions, each tested on its own
evaluateCondition(condition, email, results) ==
    \/ /\ "phishing" \in condition
       /\ \E i \in DOMAIN results : results[i].phishing >= 800
    \/ /\ "importance" \in condition
       /\ \E i \in DOMAIN results :
            results[i].importance = "critical" /\ results[i].conf >= 700
    \/ /\ "trusted" \in condition
       /\ email \in {"0.9", "0.95", "1.0"}

\* sort.Slice by priority, highest first; the lists are short, so the sort is
\* the insertion sort, which leaves rules of equal priority in declared order
RECURSIVE SortedRules(_)
SortedRules(rules) ==
    IF rules = << >> THEN << >>
    ELSE LET i == CHOOSE k \in DOMAIN rules :
                    /\ \A j \in DOMAIN rules : rules[j].priority <= rules[k].priority
                    /\ \A j \in 1..(k - 1) : rules[j].priority < rules[k].priority
         IN <<rules[i]>> \o SortedRules([j \in 1..(Len(rules) - 1) |->
                                            IF j < i THEN rules[j] ELSE rules[j + 1]])

\* index of the first response of strictly greatest confidence, 0 for none
HighestIndex(results) ==
    IF results = << >> THEN 0
    ELSE CHOOSE k \in DOMAIN results :
            /\ \A j \in DOMAIN results : results[j].conf <= results[k].conf
            /\ \A j \in 1..(k - 1) : results[j].conf < results[k].conf

NoDecision == [err |-> FALSE, none |-> TRUE]

\* no call made yet
NotCalled == [err |-> FALSE, none |-> TRUE, called |-> FALSE]

MkDecision(a, c, r, path) ==
    [err |-> FALSE, none |-> FALSE, action |-> a, conf |-> c, reasoning |-> r, path |-> path]

\* the decision a matching rule produces
RuleDecision(rule, results) ==
    LET h == HighestIndex(results)
    IN IF rule.boost > 0 /\ h # 0
       THEN MkDecision(results[h].action,
                       Rat(Min(One, results[h].conf + rule.boost), 1),
                       <<"boosted", results[h].reasoning, rule.name>>,
                       "priority")
       ELSE MkDecision(rule.action, Rat(One, 1), <<"rule", rule.reason>>, "priority")

applyPriorityRules(config, email, results) ==
    LET rules == SortedRules(config.rules)
        hit == {k \in DOMAIN rules : evaluateCondition(rules[k].condition, email, results)}
    IN IF hit = {} THEN NoDecision
       ELSE RuleDecision(rules[CHOOSE k \in hit : \A j \in hit : k <= j], results)

applyConfidenceWeighting(config, results) ==
    [i \in DOMAIN results |->
        IF results[i].profile \in DOMAIN config.weights
        THEN [results[i] EXCEPT
                !.conf = Min(One, (results[i].conf * config.weights[results[i].profile]) \div 10)]
        ELSE results[i]]

resolveByHighestConfidence(results) ==
    LET h == HighestIndex(results)
    IN IF h = 0 THEN NoDecision
       ELSE MkDecision(results[h].action, Rat(results[h].conf, 1), results[h].reasoning, "highest")

ActionsOf(results) == {results[i].action : i \in DOMAIN results}

Group(results, action) == SelectSeq(results, LAMBDA r : r.action = action)

\* first key, in visiting order `order`, whose value val[key] is strictly greater
\* than every value seen before it (start value bestVal); bestKey when none is
RECURSIVE FirstMax(_, _, _, _)
FirstMax(order, val, bestKey, bestVal) ==
    IF order = << >> THEN bestKey
    ELSE IF RatGT(val[Head(order)], bestVal)
         THEN FirstMax(Tail(order), val, Head(order), val[Head(order)])
         ELSE FirstMax(Tail(order), val, bestKey, bestVal)

\* resolveByConsensus under the order in which the range over actionCounts runs
resolveByConsensus(results, order) ==
    LET actionCounts == [a \in ActionsOf(results) |-> Rat(Len(Group(results, a)), 1)]
        bestAction == FirstMax(order, actionCounts, "", Rat(0, 1))
        d == resolveByHighestConfidence(Group(results, bestAction))
    IN IF d.none THEN d ELSE [d EXCEPT !.path = "consensus"]

RECURSIVE SumSeq(_)
SumSeq(s) == IF s = << >> THEN 0 ELSE Head(s) + SumSeq(Tail(s))

WeightOf(config, r) ==
    IF r.profile \in DOMAIN config.weights THEN config.weights[r.profile] ELSE 10

\* weightedSum / totalWeight of one action group, in thousandths
GroupConfidence(config, group) ==
    Rat(SumSeq([i \in DOMAIN group |-> group[i].conf * WeightOf(config, group[i])]),
        SumSeq([i \in DOMAIN group |-> WeightOf(config, group[i])]))

\* resolveByWeightedAverage under the order in which the range over
\* actionConfidences runs
resolveByWeightedAverage(config, results, order) ==
    LET actionConfidences ==
            [a \in ActionsOf(results) |-> GroupConfidence(config, Group(results, a))]
        bestAction == FirstMax(order, actionConfidences, "", Rat(0, 1))
        group == Group(results, bestAction)
    IN MkDecision(bestAction,
                  IF bestAction = "" THEN Rat(0, 1) ELSE actionConfidences[bestAction],
                  <<"combined", [i \in DOMAIN group |-> group[i].reasoning]>>,
                  "weighted")

resolveConflicts(config, results, order) ==
    CASE config.method = "highest_confidence" -> resolveByHighestConfidence(results)
      [] config.method = "consensus" -> resolveByConsensus(results, order)
      [] OTHER -> resolveByWeightedAverage(config, results, order)

\* ResolveDecision without the return of a single result as it is
ResolveDecisionAlways(config, email, results, order) ==
    IF Len(results) = 0 THEN [err |-> TRUE, none |-> TRUE]
    ELSE LET p == applyPriorityRules(config, email, results)
         IN IF ~p.none THEN p
            ELSE resolveConflicts(config, applyConfidenceWeighting(config, results), order)

\* ResolveDecision(email, results) under map visiting order `order`
ResolveDecision(config, email, results, order) ==
    IF Len(results) = 0 THEN [err |-> TRUE, none |-> TRUE]
    ELSE IF Len(results) = 1
    THEN MkDecision(results[1].action, Rat(results[1].conf, 1), results[1].reasoning, "single")
    ELSE LET p == applyPriorityRules(config, email, results)
         IN IF ~p.none THEN p
            ELSE resolveConflicts(config, applyConfidenceWeighting(config, results), order)

(***************************************************************************)
(* Audit chain (internal/audit/logger.go).                                 *)
(***************************************************************************)
EventEmailClassified == "email_classified"
EventProfileLoaded == "profile_loaded"
EventSecurityViolation == "security_violation"
EventSystemStart == "system_start"
EventSystemStop == "system_stop"

\* the nil metadata map, the empty hash and the empty signature
NoMetadata == [nil |-> TRUE]
NoHash == << >>

\* no verification made (since the file last changed behind the logger's back)
NotVerified == [ok |-> FALSE, index |-> -1]

\* an AuditEntry before it is hashed; the empty hash is the zero value of the field
MkEntry(id, type, email, profile, action, conf, reasoning, metadata, prev) ==
    [id |-> id, timestamp |-> id, event_type |-> type, email_id |-> email,
     profile_id |-> profile, action |-> action, confidence |-> conf,
     reasoning |-> reasoning, metadata |-> metadata, prev_hash |-> prev,
     hash |-> NoHash, signature |-> NoHash]

\* calculateHash: SHA-256 of the listed fields (reasoning, hash and signature
\* are not among them), taken as collision free; the metadata take part only
\* when the map is not nil
calculateHash(e) ==
    <<"sha256", e.id, e.timestamp, e.event_type, e.email_id, e.profile_id, e.action,
      e.confidence, e.prev_hash>>
    \o (IF e.metadata = NoMetadata THEN << >> ELSE <<e.metadata>>)

WithHash(e) == [e EXCEPT !.hash = calculateHash(e)]

\* signEntry, as writeEntry applies it when an encryption key is configured
Signed(config, e) ==
    IF config.keyed THEN [e EXCEPT !.signature = <<"bcrypt", e.hash>>] ELSE e

\* the file after writeEntry(e); a write to a closed file, or one the disk
\* refuses (ok = FALSE), leaves the file as it is and returns an error
writeEntry(config, file, open, e, ok) ==
    IF open /\ ok THEN Append(file, Signed(config, e)) ELSE file

genesisEntry ==
    WithHash(MkEntry(0, "chain_genesis", "", "", "", 0, "",
                     [version |-> "1.0", system |-> "mailsentinel"], NoHash))

\* readAllEntries returns an empty list whatever the file holds
readAllEntries(file) == << >>

\* loadLastHash leaves the chain head empty whatever the file holds
loadLastHash(file) == NoHash

verifySignature(config, e) == e.signature = <<"bcrypt", e.hash>>

\* the checks VerifyChain makes on entry i of `entries`
EntryGood(config, entries, i) ==
    /\ entries[i].hash = calculateHash(entries[i])
    /\ entries[i].prev_hash = (IF i = 1 THEN NoHash ELSE entries[i - 1].hash)
    /\ (entries[i].signature # NoHash /\ config.keyed) => verifySignature(config, entries[i])

VerifyOk == [ok |-> TRUE, index |-> 0]

\* the loop of VerifyChain over a list of entries: the first bad index, zero based
VerifyEntries(config, entries) ==
    LET bad == {i \in DOMAIN entries : ~EntryGood(config, entries, i)}
    IN IF bad = {} THEN VerifyOk
       ELSE [ok |-> FALSE, index |-> (CHOOSE i \in bad : \A j \in bad : i <= j) - 1]

VerifyChain(config, file) ==
    IF ~config.enabled \/ ~config.integrity_check THEN VerifyOk
    ELSE VerifyEntries(config, readAllEntries(file))

\* VerifyIntegrity returns (true, nil) on every path
VerifyIntegrity(config, file) == VerifyOk

AuditConfigs == [enabled : BOOLEAN, integrity_check : BOOLEAN, keyed : BOOLEAN]

\* the goroutines that share one Logger
Workers == {"w1", "w2"}

\* a worker with no logging call in flight
Resting == [pc |-> "rest"]

\* NewLogger on an empty directory: the genesis entry is written
auInit ==
    /\ au_config \in AuditConfigs
    /\ au_file = IF au_config.enabled
                 THEN writeEntry(au_config, << >>, TRUE, genesisEntry, TRUE)
                 ELSE << >>
    /\ au_open = au_config.enabled
    /\ au_lastHash = IF au_config.enabled THEN genesisEntry.hash ELSE NoHash
    /\ au_entryCount = 0
    /\ au_clock = 0
    /\ au_tampered = FALSE
    /\ au_lost = FALSE
    /\ au_verify = NotVerified
    /\ au_workers = [w \in Workers |-> Resting]

\* LogEmailClassification, LogProfileLoad, LogSecurityViolation, LogSystemEvent:
\* the entry is chained to lastHash, lastHash and entryCount move, the entry is written
LogChained(e, ok) ==
    /\ au_config.enabled
    /\ au_clock < MaxAuditOps
    /\ au_clock' = au_clock + 1
    /\ au_lastHash' = calculateHash(e)
    /\ au_entryCount' = au_entryCount + 1
    /\ au_file' = writeEntry(au_config, au_file, au_open, WithHash(e), ok)
    /\ au_lost' = (au_lost \/ ~(au_open /\ ok))
    /\ UNCHANGED <<au_config, au_open, au_tampered, au_verify, au_workers>>
    /\ auFrame

LogEmailClassification ==
    \E ok \in BOOLEAN :
        LogChained(MkEntry(au_clock + 1, EventEmailClassified, "m1", "spam", "archive", 900,
                           "bulk sender",
                           [email_subject |-> "s", email_from |-> "f", email_size |-> 1,
                            labels |-> << >>],
                           au_lastHash), ok)

LogProfileLoad ==
    \E ok \in BOOLEAN :
        LogChained(MkEntry(au_clock + 1, EventProfileLoaded, "", "spam", "", 0, "",
                           [version |-> "1.0.0", success |-> TRUE], au_lastHash), ok)

LogSecurityViolation ==
    \E ok \in BOOLEAN :
        LogChained(MkEntry(au_clock + 1, EventSecurityViolation, "", "", "", 0, "",
                           [violation_type |-> "t", description |-> "d"], au_lastHash), ok)

LogSystemEvent ==
    \E ok \in BOOLEAN :
        LogChained(MkEntry(au_clock + 1, EventSystemStart, "", "", "", 0, "",
                           NoMetadata, au_lastHash), ok)

\* LogClassification, LogAction: the entry is written as built, with neither
\* prev_hash nor hash set, and the logger's chain head is left alone
LogUnchained(e, ok) ==
    /\ au_config.enabled
    /\ au_clock < MaxAuditOps
    /\ au_clock' = au_clock + 1
    /\ au_file' = writeEntry(au_config, au_file, au_open, e, ok)
    /\ au_lost' = (au_lost \/ ~(au_open /\ ok))
    /\ UNCHANGED <<au_config, au_open, au_lastHash, au_entryCount, au_tampered, au_verify,
                   au_workers>>
    /\ auFrame

LogClassification ==
    \E ok \in BOOLEAN :
        LogUnchained(MkEntry(au_clock + 1, EventEmailClassified, "m1", "spam", "archive", 900,
                             "bulk sender", NoMetadata, NoHash), ok)

LogAction ==
    \E ok \in BOOLEAN :
        LogUnchained(MkEntry(au_clock + 1, "action", "m1", "", "archive", 0, "",
                             [label |-> "spam"], NoHash), ok)

\* VerifyChain or VerifyIntegrity called by the owner of the logger
Verify ==
    /\ au_verify' \in {VerifyChain(au_config, au_file), VerifyIntegrity(au_config, au_file)}
    /\ au_verify' # au_verify
    /\ UNCHANGED <<au_config, au_file, au_open, au_lastHash, au_entryCount, au_clock,
                   au_tampered, au_lost, au_workers>>
    /\ auFrame

RemoveAt(seq, i) == [j \in 1..(Len(seq) - 1) |-> IF j < i THEN seq[j] ELSE seq[j + 1]]

SwapWithNext(seq, i) ==
    [j \in DOMAIN seq |-> IF j = i THEN seq[i + 1] ELSE IF j = i + 1 THEN seq[i] ELSE seq[j]]

\* what a change made behind the logger's back can turn the file into: a field
\* of a non-terminal entry altered, a non-terminal entry removed, two
\* neighbouring entries exchanged
TamperedFiles(file) ==
    {[file EXCEPT ![i].action = "tampered"] : i \in 1..(Len(file) - 1)}
    \cup {[file EXCEPT ![i].prev_hash = <<"tampered">>] : i \in 1..(Len(file) - 1)}
    \cup {RemoveAt(file, i) : i \in 1..(Len(file) - 1)}
    \cup {SwapWithNext(file, i) : i \in 1..(Len(file) - 1)}

\* someone edits the audit file on disk
Tamper ==
    /\ ~au_tampered
    /\ au_file' \in TamperedFiles(au_file)
    /\ au_file' # au_file
    /\ au_tampered' = TRUE
    /\ au_verify' = NotVerified
    /\ UNCHANGED <<au_config, au_open, au_lastHash, au_entryCount, au_clock, au_lost,
                   au_workers>>
    /\ auFrame

\* Close on an open logger: the system_stop event is logged as LogSystemEvent
\* logs it, the chain is verified (a failure is only logged) and the file
\* handle is closed
Close ==
    /\ au_config.enabled
    /\ au_open
    /\ au_clock < MaxAuditOps
    /\ au_clock' = au_clock + 1
    /\ \E ok \in BOOLEAN :
          LET e == MkEntry(au_clock + 1, EventSystemStop, "", "", "", 0, "",
                           [total_entries |-> au_entryCount, final_hash |-> au_lastHash],
                           au_lastHash)
          IN /\ au_lastHash' = calculateHash(e)
             /\ au_file' = writeEntry(au_config, au_file, au_open, WithHash(e), ok)
             /\ au_lost' = (au_lost \/ ~ok)
    /\ au_entryCount' = au_entryCount + 1
    /\ au_verify' = VerifyChain(au_config, au_file')
    /\ au_open' = FALSE
    /\ UNCHANGED <<au_config, au_tampered, au_workers>>
    /\ auFrame

\* NewLogger, the same day, on the directory of a logger that was closed: the
\* file is opened for appending; an empty file gets the genesis entry, for
\* any other file the chain head is what loadLastHash yields
NewLogger ==
    /\ au_config.enabled
    /\ ~au_open
    /\ au_open' = TRUE
    /\ au_entryCount' = 0
    /\ IF au_file = << >>
       THEN /\ au_lastHash' = genesisEntry.hash
            /\ au_file' = writeEntry(au_config, au_file, TRUE, genesisEntry, TRUE)
       ELSE /\ au_lastHash' = loadLastHash(au_file)
            /\ au_file' = au_file
    /\ UNCHANGED <<au_config, au_clock, au_tampered, au_lost, au_verify, au_workers>>
    /\ auFrame

\* what the unsynchronised read of l.lastHash can see: the value stored last,
\* or the value stored by a call still in flight (no lock orders that store
\* before the read)
LastHashReads ==
    {au_lastHash} \cup {au_workers[v].entry.hash : v \in {x \in Workers : au_workers[x].pc = "stored"}}

\* LogEmailClassification of worker w up to the first Lock: the entry is built
\* on the lastHash the worker reads and its hash is computed
BuildEntry(w) ==
    /\ au_config.enabled
    /\ au_workers[w] = Resting
    /\ au_clock < MaxAuditOps
    /\ au_clock' = au_clock + 1
    /\ \E prev \in LastHashReads :
          au_workers' = [au_workers EXCEPT ![w] =
              [pc |-> "built",
               entry |-> WithHash(MkEntry(au_clock + 1, EventEmailClassified, w, "spam",
                                          "archive", 900, "bulk sender",
                                          [email_subject |-> "s", email_from |-> "f",
                                           email_size |-> 1, labels |-> << >>],
                                          prev))]]
    /\ UNCHANGED <<au_config, au_file, au_open, au_lastHash, au_entryCount, au_tampered,
                   au_lost, au_verify>>
    /\ auFrame

\* the first critical section: lastHash and entryCount move
StoreLastHash(w) ==
    /\ au_workers[w].pc = "built"
    /\ au_lastHash' = au_workers[w].entry.hash
    /\ au_entryCount' = au_entryCount + 1
    /\ au_workers' = [au_workers EXCEPT ![w].pc = "stored"]
    /\ UNCHANGED <<au_config, au_file, au_open, au_clock, au_tampered, au_lost, au_verify>>
    /\ auFrame

\* the second critical section: writeEntry under the lock
WriteEntry(w) ==
    /\ au_workers[w].pc = "stored"
    /\ \E ok \in BOOLEAN :
          /\ au_file' = writeEntry(au_config, au_file, au_open, au_workers[w].entry, ok)
          /\ au_lost' = (au_lost \/ ~(au_open /\ ok))
    /\ au_workers' = [au_workers EXCEPT ![w] = Resting]
    /\ UNCHANGED <<au_config, au_open, au_lastHash, au_entryCount, au_clock, au_tampered,
                   au_verify>>
    /\ auFrame

\* LogEmailClassification called by workers whose calls may overlap
workersNext ==
    \/ \E w \in Workers : BuildEntry(w)
    \/ \E w \in Workers : StoreLastHash(w)
    \/ \E w \in Workers : WriteEntry(w)

\* a logger that chains every entry it writes, closed and opened again
restartNext ==
    \/ LogEmailClassification
    \/ LogProfileLoad
    \/ LogSecurityViolation
    \/ LogSystemEvent
    \/ Close
    \/ NewLogger

auNext ==
    \/ LogEmailClassification
    \/ LogProfileLoad
    \/ LogSecurityViolation
    \/ LogSystemEvent
    \/ LogClassification
    \/ LogAction
    \/ Verify
    \/ Tamper


(***************************************************************************)
(* Classifier gateway: ClassifyEmail behind the circuit breaker of         *)
(* NewClient (sony/gobreaker with the Settings built there).               *)
(***************************************************************************)
StateClosed == "closed"
StateHalfOpen == "half-open"
StateOpen == "open"

\* the zero time.Time
NoExpiry == -1

\* gobreaker's Timeout when the setting is not positive, in seconds
DefaultTimeout == 60

MkBreaker(maxRequests, interval, timeout, readyToTrip) ==
    [maxRequests |-> maxRequests, interval |-> interval, timeout |-> timeout,
     readyToTrip |-> readyToTrip]

\* DefaultConfig().Ollama.CircuitBreaker
DefaultMaxRequests == 10
DefaultInterval == 60
DefaultBreakerTimeout == 60
DefaultReadyToTrip == 5
DefaultBreaker ==
    MkBreaker(DefaultMaxRequests, DefaultInterval, DefaultBreakerTimeout, DefaultReadyToTrip)

\* DefaultConfig().Ollama.MaxRetries
DefaultMaxRetries == 3

\* the settings of TestCircuitBreakerBehavior with a shorter timeout; settings
\* that trip at the first failure, left at zero otherwise but for the timeout;
\* settings without a counting interval
BreakerConfigs ==
    {MkBreaker(2, 5, 2, 2), MkBreaker(0, 0, 1, 1), MkBreaker(1, 0, 2, 2)}

Callers == {"w1", "w2"}

\* what the inference endpoint and the parse of its answer can come to: a
\* classification, a transport or HTTP error of generate, an answer that
\* parseClassificationResponse rejects
Outcomes == {"ok", "transport", "schema"}

ZeroCounts == [requests |-> 0, consecutiveSuccesses |-> 0, consecutiveFailures |-> 0]

\* Settings.MaxRequests 0 admits one request
maxRequests(cfg) == IF cfg.maxRequests = 0 THEN 1 ELSE cfg.maxRequests

timeout(cfg) == IF cfg.timeout <= 0 THEN DefaultTimeout ELSE cfg.timeout

\* Settings.ReadyToTrip as NewClient sets it
ReadyToTrip(cfg, counts) == counts.consecutiveFailures >= cfg.readyToTrip

\* the breaker proper: state, counts, expiry, generation
MkCB(state, counts, expiry, generation) ==
    [state |-> state, counts |-> counts, expiry |-> expiry, generation |-> generation]

\* toNewGeneration: the counts are cleared and the expiry follows from the state
toNewGeneration(cfg, cb, now) ==
    MkCB(cb.state, ZeroCounts,
         CASE cb.state = StateClosed ->
                (IF cfg.interval <= 0 THEN NoExpiry ELSE now + cfg.interval)
           [] cb.state = StateOpen -> now + timeout(cfg)
           [] OTHER -> NoExpiry,
         cb.generation + 1)

setState(cfg, cb, state, now) ==
    IF cb.state = state THEN cb
    ELSE toNewGeneration(cfg, [cb EXCEPT !.state = state], now)

\* currentState: a closed breaker past its interval starts a new generation, an
\* open one past its timeout becomes half-open
currentState(cfg, cb, now) ==
    CASE cb.state = StateClosed /\ cb.expiry # NoExpiry /\ cb.expiry < now ->
            toNewGeneration(cfg, cb, now)
      [] cb.state = StateOpen /\ cb.expiry < now -> setState(cfg, cb, StateHalfOpen, now)
      [] OTHER -> cb

\* beforeRequest: the error it returns ("" for none) and the breaker after it
beforeRequest(cfg, cb0, now) ==
    LET cb == currentState(cfg, cb0, now)
    IN IF cb.state = StateOpen THEN [err |-> "breaker_open", cb |-> cb]
       ELSE IF cb.state = StateHalfOpen /\ cb.counts.requests >= maxRequests(cfg)
       THEN [err |-> "too_many_requests", cb |-> cb]
       ELSE [err |-> "",
             cb |-> [cb EXCEPT !.counts.requests = cb.counts.requests + 1]]

onSuccess(cfg, cb, now) ==
    LET counted == [cb EXCEPT !.counts.consecutiveSuccesses = cb.counts.consecutiveSuccesses + 1,
                              !.counts.consecutiveFailures = 0]
    IN IF cb.state = StateHalfOpen /\ counted.counts.consecutiveSuccesses >= maxRequests(cfg)
       THEN setState(cfg, counted, StateClosed, now)
       ELSE counted

onFailure(cfg, cb, now) ==
    LET counted == [cb EXCEPT !.counts.consecutiveFailures = cb.counts.consecutiveFailures + 1,
                              !.counts.consecutiveSuccesses = 0]
    IN CASE cb.state = StateClosed ->
                (IF ReadyToTrip(cfg, counted.counts)
                 THEN setState(cfg, counted, StateOpen, now) ELSE counted)
         [] cb.state = StateHalfOpen -> setState(cfg, cb, StateOpen, now)
         [] OTHER -> cb

\* afterRequest: a result of an older generation is dropped
afterRequest(cfg, cb0, before, success, now) ==
    LET cb == currentState(cfg, cb0, now)
    IN IF cb.generation # before THEN cb
       ELSE IF success THEN onSuccess(cfg, cb, now) ELSE onFailure(cfg, cb, now)

\* the breaker held in the variables
TheBreaker == MkCB(cb_state, cb_counts, cb_expiry, cb_generation)

Idle == [busy |-> FALSE]

\* no call has come this far yet
NoCall == [made |-> FALSE]

\* NewClient: a closed breaker in its first generation
cbInit ==
    /\ cb_cfg \in BreakerConfigs \cup {DefaultBreaker}
    /\ cb_now = 0
    /\ cb_state = StateClosed
    /\ cb_counts = ZeroCounts
    /\ cb_expiry = toNewGeneration(cb_cfg, MkCB(StateClosed, ZeroCounts, NoExpiry, 0), 0).expiry
    /\ cb_generation = 1
    /\ cb_callers = [c \in Callers |-> Idle]
    /\ cb_calls = 0
    /\ cb_epoch = 0
    /\ cb_streak = 0
    /\ cb_begin = NoCall
    /\ cb_end = NoCall

SetBreaker(cb) ==
    /\ cb_state' = cb.state
    /\ cb_counts' = cb.counts
    /\ cb_expiry' = cb.expiry
    /\ cb_generation' = cb.generation
    /\ cb_epoch' = IF cb.state # cb_state THEN cb_epoch + 1 ELSE cb_epoch

\* ClassifyEmail up to the moment generate is entered: Execute's beforeRequest
\* either turns the call away or lets it through to the endpoint, to which
\* generate sends one request
BeginClassify(c) ==
    /\ ~cb_callers[c].busy
    /\ cb_calls < MaxCalls
    /\ cb_calls' = cb_calls + 1
    /\ LET r == beforeRequest(cb_cfg, TheBreaker, cb_now)
       IN /\ SetBreaker(r.cb)
          /\ cb_callers' =
                [cb_callers EXCEPT ![c] =
                    IF r.err = "" THEN [busy |-> TRUE, generation |-> r.cb.generation,
                                        state |-> r.cb.state, sends |-> 1,
                                        epoch |-> IF r.cb.state # cb_state
                                                  THEN cb_epoch + 1 ELSE cb_epoch]
                    ELSE Idle]
          /\ cb_begin' = [made |-> TRUE, at |-> cb_now, before |-> cb_state,
                          expiry |-> cb_expiry, err |-> r.err, sent |-> r.err = ""]
          /\ cb_streak' = IF r.cb.state # cb_state THEN 0 ELSE cb_streak
    /\ UNCHANGED <<cb_cfg, cb_now, cb_end>>
    /\ cbFrame

\* the rest of ClassifyEmail: generate returns, Execute's afterRequest counts
\* its result, and an answer that generate delivered is parsed
EndClassify(c) ==
    /\ cb_callers[c].busy
    /\ \E outcome \in Outcomes :
        LET cb == afterRequest(cb_cfg, TheBreaker, cb_callers[c].generation,
                               outcome # "transport", cb_now)
            mine == cb_callers[c].state = StateClosed /\ cb_callers[c].epoch = cb_epoch
        IN /\ SetBreaker(cb)
           /\ cb_end' = [made |-> TRUE, admitted |-> cb_callers[c].state,
                         current |-> cb_callers[c].epoch = cb_epoch,
                         failed |-> outcome # "ok", outcome |-> outcome, after |-> cb.state,
                         sends |-> cb_callers[c].sends,
                         counted |-> IF currentState(cb_cfg, TheBreaker, cb_now).generation
                                            # cb_callers[c].generation THEN "dropped"
                                     ELSE IF outcome # "transport" THEN "success"
                                     ELSE "failure"]
           /\ cb_streak' = IF cb.state # cb_state /\ cb.state # StateOpen THEN 0
                           ELSE IF ~mine THEN cb_streak
                           ELSE IF outcome = "ok" THEN 0 ELSE cb_streak + 1
    /\ cb_callers' = [cb_callers EXCEPT ![c] = Idle]
    /\ UNCHANGED <<cb_cfg, cb_now, cb_calls, cb_begin>>
    /\ cbFrame

\* time passes: up to the expiry that lies ahead or just past it (the breaker
\* tells no other moments apart), a second at a time when none lies ahead; a
\* scenario lasts MaxTime seconds and one timeout of the breaker
Advance ==
    /\ cb_now' \in (IF cb_expiry >= cb_now THEN {cb_expiry, cb_expiry + 1} ELSE {cb_now + 1})
    /\ cb_now' > cb_now
    /\ cb_now' <= MaxTime + timeout(cb_cfg)
    /\ UNCHANGED <<cb_cfg, cb_state, cb_counts, cb_expiry, cb_generation, cb_callers,
                   cb_calls, cb_epoch, cb_streak, cb_begin, cb_end>>
    /\ cbFrame

cbNext ==
    \/ \E c \in Callers : BeginClassify(c)
    \/ \E c \in Callers : EndClassify(c)
    \/ Advance

cbIdle ==
    /\ cb_cfg = MkBreaker(0, 0, 0, 0)
    /\ cb_now = 0
    /\ cb_state = StateClosed
    /\ cb_counts = ZeroCounts
    /\ cb_expiry = NoExpiry
    /\ cb_generation = 1
    /\ cb_callers = [c \in Callers |-> Idle]
    /\ cb_calls = 0
    /\ cb_epoch = 0
    /\ cb_streak = 0
    /\ cb_begin = NoCall
    /\ cb_end = NoCall


(***************************************************************************)
(* Profile loader (internal/profile: NewLoader, LoadAll, Reload).          *)
(* A profile file is taken by the id it declares; of a profile's content   *)
(* the model carries the two kinds of edges, the system prompt (as the     *)
(* list of the ids whose prompts were concatenated into it), the model     *)
(* parameters (temperature in thousandths) and the few-shot and policy     *)
(* condition lists (by the names of their elements). A Go slice is a       *)
(* window [arr, len] on a backing array of the heap; the length of the     *)
(* array is the capacity of the slice.                                     *)
(***************************************************************************)
\* the profile ids, in the order of sort.Strings
ProfileIds == <<"alerts", "base", "spam">>

Ids == Range(ProfileIds)

\* an id no file of the directory declares
Ghost == "ghost"

\* a model parameter as a file gives it; left out: [set |-> FALSE, val |-> 0]
Param(set, val) == [set |-> set, val |-> val]

MkBody(temperature, max_tokens, timeout_seconds, fewshot, conditions) ==
    [temperature |-> temperature, max_tokens |-> max_tokens,
     timeout_seconds |-> timeout_seconds, fewshot |-> fewshot, conditions |-> conditions]

\* a file that sets max_tokens and timeout_seconds and nothing else of these
PlainBody == MkBody(Param(FALSE, 0), Param(TRUE, 500), Param(TRUE, 20), << >>, << >>)

NoFile == [present |-> FALSE, valid |-> FALSE, system |-> TRUE, inherits |-> "",
           depends_on |-> << >>, body |-> PlainBody]

\* a file that is there; valid: it has the id, version, model and the
\* confidence range validateProfile asks for; system: its system prompt is
\* not empty
MkFile(valid, inherits, depends_on) ==
    [present |-> TRUE, valid |-> valid, system |-> TRUE, inherits |-> inherits,
     depends_on |-> depends_on, body |-> PlainBody]

\* a child of base that leaves its system prompt to its parent
PromptlessFile == [MkFile(TRUE, "base", << >>) EXCEPT !.system = FALSE]

\* what the file of one id can be: missing, rejected by loadProfileFile, a
\* valid profile with at most one parent and at most one explicit dependency,
\* or a child without a system prompt of its own
FileMenu ==
    {NoFile, MkFile(FALSE, "", << >>), PromptlessFile}
    \cup {MkFile(TRUE, i, d) : i \in {""} \cup Ids \cup {Ghost},
                               d \in SeqsUpTo(Ids \cup {Ghost}, 1)}

EdgesOfFile(f) == (IF f.inherits = "" THEN 0 ELSE 1) + Len(f.depends_on)

EdgesOf(dir) == SumSeq([k \in DOMAIN ProfileIds |-> EdgesOfFile(dir[ProfileIds[k]])])

Directories == {dir \in [Ids -> FileMenu] : EdgesOf(dir) <= MaxEdges}

\* the deps buildDependencyGraph records for a profile: the parent first, then
\* the explicit dependencies
DepsOfNoParent(profile) == profile.depends_on
DepsOf(profile) ==
    (IF profile.inherits # "" THEN <<profile.inherits>> ELSE << >>) \o profile.depends_on

\* validateProfile, the model parameters included
validateProfile(file) ==
    /\ file.valid
    /\ file.system
    /\ file.body.temperature.val >= 0 /\ file.body.temperature.val <= 2000
    /\ file.body.max_tokens.val > 0
    /\ file.body.timeout_seconds.val > 0

ListKinds == {"fewshot", "conditions"}

\* loadProfileFile: a parameter the file leaves out is the zero value; the
\* slice yaml.Unmarshal builds for a list has an array of its own, as long as
\* the list
loadProfileFile(id, file) ==
    [inherits |-> file.inherits, depends_on |-> file.depends_on,
     system |-> IF file.system THEN <<id>> ELSE << >>,
     temperature |-> file.body.temperature.val,
     max_tokens |-> file.body.max_tokens.val,
     timeout_seconds |-> file.body.timeout_seconds.val,
     fewshot |-> [arr |-> <<id, "fewshot", 0>>, len |-> Len(file.body.fewshot)],
     conditions |-> [arr |-> <<id, "conditions", 0>>, len |-> Len(file.body.conditions)]]

\* the profiles LoadAll reads: files that fail to load are logged and skipped
ReadProfiles(dir) ==
    [id \in {i \in DOMAIN dir : dir[i].present /\ validateProfile(dir[i])} |->
        loadProfileFile(id, dir[id])]

\* the backing arrays of the slices of the profiles read
DecodedHeap(dir) ==
    [a \in {<<id, kind, 0>> : id \in DOMAIN ReadProfiles(dir), kind \in ListKinds} |->
        dir[a[1]].body[a[2]]]

\* the elements a slice shows
Elements(heap, slice) == SubSeq(heap[slice.arr], 1, slice.len)

\* append(s, values...): in place when the capacity of s allows it, else into
\* a new array `fresh` of the capacity growslice gives it (the greater of the
\* length needed and twice the old capacity, for arrays this small), the
\* slots past the length holding the zero value
appendSlice(heap, s, values, fresh) ==
    LET cap == Len(heap[s.arr])
        needed == s.len + Len(values)
        newcap == IF needed > 2 * cap THEN needed ELSE 2 * cap
    IN IF needed <= cap
       THEN [slice |-> [arr |-> s.arr, len |-> needed],
             heap |-> [heap EXCEPT ![s.arr] =
                          Elements(heap, s) \o values \o SubSeq(heap[s.arr], needed + 1, cap)]]
       ELSE [slice |-> [arr |-> fresh, len |-> needed],
             heap |-> (fresh :> (Elements(heap, s) \o values
                                 \o [k \in 1..(newcap - needed) |-> ""])) @@ heap]

Count(seq, x) == Len(SelectSeq(seq, LAMBDA y : y = x))

\* adjList[dep]: the dependents of dep, one entry per edge, in the order in
\* which the range over registry.Dependencies (order) comes to them
RECURSIVE AdjList(_, _, _)
AdjList(dependencies, order, dep) ==
    IF order = << >> THEN << >>
    ELSE [k \in 1..Count(dependencies[Head(order)], dep) |-> Head(order)]
         \o AdjList(dependencies, Tail(order), dep)

\* the loop over adjList[current]: in-degrees go down, a neighbour whose
\* in-degree reaches zero joins the queue
RECURSIVE RemoveEdges(_, _, _)
RemoveEdges(neighbors, inDegree, queue) ==
    IF neighbors = << >> THEN [inDegree |-> inDegree, queue |-> queue]
    ELSE LET n == Head(neighbors)
             d == [inDegree EXCEPT ![n] = inDegree[n] - 1]
         IN RemoveEdges(Tail(neighbors), d, IF d[n] = 0 THEN Append(queue, n) ELSE queue)

\* the queue loop of Kahn's algorithm
RECURSIVE ProcessQueue(_, _, _, _, _)
ProcessQueue(dependencies, order, queue, inDegree, result) ==
    IF queue = << >> THEN result
    ELSE LET current == Head(queue)
             r == RemoveEdges(AdjList(dependencies, order, current), inDegree, Tail(queue))
         IN ProcessQueue(dependencies, order, r.queue, r.inDegree, Append(result, current))

SortResult(err, order) == [err |-> err, order |-> order]

\* topologicalSort without the comparison of len(result) with len(profiles)
topologicalSortUnchecked(profiles, dependencies, graphOrder, queueOrder) ==
    LET inDegree == [id \in DOMAIN profiles |-> Len(dependencies[id])]
    IN SortResult("", ProcessQueue(dependencies, graphOrder,
                                   SelectSeq(queueOrder, LAMBDA id : inDegree[id] = 0),
                                   inDegree, << >>))

\* topologicalSort(profiles) on registry.Dependencies, the range over
\* registry.Dependencies running in order graphOrder and the range over
\* inDegree in order queueOrder
topologicalSort(profiles, dependencies, graphOrder, queueOrder) ==
    LET ids == DOMAIN profiles
        inDegree == [id \in ids |-> Len(dependencies[id])]
        queue == SelectSeq(queueOrder, LAMBDA id : inDegree[id] = 0)
        result == ProcessQueue(dependencies, graphOrder, queue, inDegree, << >>)
    IN IF \E id \in DOMAIN dependencies : \E k \in DOMAIN dependencies[id] :
                dependencies[id][k] \notin ids
       THEN SortResult("missing_dependency", << >>)
       ELSE IF Len(result) # Cardinality(ids)
       THEN SortResult("circular_dependency", << >>)
       ELSE SortResult("", result)

\* the merge of one list: append(parent list, child list...) when the parent
\* has elements, the child's own slice otherwise
mergeList(heap, child, parent, fresh) ==
    IF parent.len > 0 THEN appendSlice(heap, parent, Elements(heap, child), fresh)
    ELSE [slice |-> child, heap |-> heap]

\* mergeWithParent(child, parent) for the child of id `id`: the merged child
\* and the heap after it. The parent's prompt comes before the child's (an
\* empty prompt of the child is replaced by the parent's); a
\* parameter of the child that is zero is taken from the parent; the lists
\* are appended to the parent's
mergeWithParent(id, child, parent, heap) ==
    LET fewshot == mergeList(heap, child.fewshot, parent.fewshot, <<id, "fewshot", 1>>)
        conditions == mergeList(fewshot.heap, child.conditions, parent.conditions,
                                <<id, "conditions", 1>>)
    IN [profile |->
            [child EXCEPT
                !.system = IF child.system = << >> THEN parent.system
                           ELSE IF parent.system # << >> THEN parent.system \o child.system
                           ELSE child.system,
                !.temperature = IF child.temperature = 0 THEN parent.temperature
                                ELSE child.temperature,
                !.max_tokens = IF child.max_tokens = 0 THEN parent.max_tokens
                               ELSE child.max_tokens,
                !.timeout_seconds = IF child.timeout_seconds = 0 THEN parent.timeout_seconds
                                    ELSE child.timeout_seconds,
                !.fewshot = fewshot.slice,
                !.conditions = conditions.slice],
        heap |-> conditions.heap]

\* resolveInheritance: the profiles are merged with their parents in load
\* order; a parent that is not among the profiles is an error
RECURSIVE resolveInheritance(_, _, _)
resolveInheritance(profiles, heap, loadOrder) ==
    IF loadOrder = << >> THEN [err |-> "", profiles |-> profiles, heap |-> heap]
    ELSE LET id == Head(loadOrder)
             parent == profiles[id].inherits
         IN IF parent = "" THEN resolveInheritance(profiles, heap, Tail(loadOrder))
            ELSE IF parent \notin DOMAIN profiles
            THEN [err |-> "parent_not_found", profiles |-> profiles, heap |-> heap]
            ELSE LET merged == mergeWithParent(id, profiles[id], profiles[parent], heap)
                 IN resolveInheritance([profiles EXCEPT ![id] = merged.profile],
                                       merged.heap, Tail(loadOrder))

\* a profile as its readers see it: each list by the elements its slice shows
Effective(profile, heap) ==
    [profile EXCEPT !.fewshot = Elements(heap, profile.fewshot),
                    !.conditions = Elements(heap, profile.conditions)]

MkRegistry(profiles, dependencies, loadOrder) ==
    [profiles |-> profiles, dependencies |-> dependencies, loadOrder |-> loadOrder]

\* the registry of NewLoader, and of LoadAll once it has cleared the old one
EmptyRegistry == MkRegistry(<< >>, << >>, << >>)

\* LoadAll: the error it returns ("" for nil) and the registry it leaves
LoadAllResult(dir, readable, graphOrder, queueOrder) ==
    LET profiles == ReadProfiles(dir)
        dependencies == [id \in DOMAIN profiles |-> DepsOf(profiles[id])]
        sorted == topologicalSort(profiles, dependencies, graphOrder, queueOrder)
        resolved == resolveInheritance(profiles, DecodedHeap(dir), sorted.order)
    IN IF ~readable THEN [err |-> "find_profile_files", registry |-> EmptyRegistry]
       ELSE IF sorted.err # ""
       THEN [err |-> sorted.err, registry |-> MkRegistry(<< >>, dependencies, << >>)]
       ELSE IF resolved.err # ""
       THEN [err |-> resolved.err, registry |-> MkRegistry(<< >>, dependencies, sorted.order)]
       ELSE [err |-> "",
             registry |-> MkRegistry([id \in DOMAIN profiles |->
                                         Effective(resolved.profiles[id], resolved.heap)],
                                     dependencies, sorted.order)]

GetProfile(registry, id) ==
    IF id \in DOMAIN registry.profiles
    THEN [found |-> TRUE, profile |-> registry.profiles[id]]
    ELSE [found |-> FALSE]

ListProfiles(registry) == SelectSeq(ProfileIds, LAMBDA id : id \in DOMAIN registry.profiles)

\* NewLoader on a directory
ldInit ==
    /\ ld_dir \in Directories
    /\ ld_readable = TRUE
    /\ ld_registry = EmptyRegistry
    /\ ld_result = "not_called"
    /\ ld_before = EmptyRegistry
    /\ ld_edits = 0

\* a valid profile file with a parent (or none) and the given content
FamilyFile(inherits, body) == [MkFile(TRUE, inherits, << >>) EXCEPT !.body = body]

\* directories of four profiles that inherit: base at the root, mid under base
\* or on its own, alerts and spam under base or under mid. A child sets its
\* temperature (to 0 or to 0.1) or leaves it out; spam may leave max_tokens out
MergeDirectories ==
    {("base" :> b) @@ ("mid" :> m) @@ ("alerts" :> a) @@ ("spam" :> sp) :
        b \in {FamilyFile("", MkBody(Param(TRUE, 200), Param(TRUE, 500), Param(TRUE, 20), f, c)) :
                    f \in {<<"b1">>, <<"b1", "b2">>}, c \in {<< >>, <<"bc1", "bc2">>}},
        m \in {FamilyFile(i, MkBody(t, Param(TRUE, 500), Param(TRUE, 20), f, <<"mc1">>)) :
                    i \in {"", "base"},
                    t \in {Param(FALSE, 0), Param(TRUE, 0), Param(TRUE, 100)},
                    f \in {<< >>, <<"m1">>}},
        a \in {FamilyFile(i, MkBody(t, Param(TRUE, 500), Param(TRUE, 30), <<"a1">>, <<"ac1">>)) :
                    i \in {"base", "mid"}, t \in {Param(FALSE, 0), Param(TRUE, 0)}},
        sp \in {FamilyFile(i, MkBody(Param(FALSE, 0), mt, Param(TRUE, 20), <<"s1">>, << >>)) :
                    i \in {"base", "mid"}, mt \in {Param(TRUE, 800), Param(FALSE, 0)}}}

\* NewLoader on a directory of profiles that inherit
mergeInit ==
    /\ ld_dir \in MergeDirectories
    /\ ld_readable = TRUE
    /\ ld_registry = EmptyRegistry
    /\ ld_result = "not_called"
    /\ ld_before = EmptyRegistry
    /\ ld_edits = 0

\* NewLoader on a directory that is going to change
reloadInit ==
    /\ ldInit
    /\ EdgesOf(ld_dir) <= MaxStartEdges

\* LoadAll called on the loader, the directory as it is
LoadAll ==
    /\ \E graphOrder \in Perms(DOMAIN ReadProfiles(ld_dir)) :
       \E queueOrder \in Perms(DOMAIN ReadProfiles(ld_dir)) :
          LET r == LoadAllResult(ld_dir, ld_readable, graphOrder, queueOrder)
          IN /\ ld_registry' = r.registry
             /\ ld_result' = IF r.err = "" THEN "ok" ELSE r.err
    /\ ld_before' = ld_registry
    /\ UNCHANGED <<ld_dir, ld_readable, ld_edits>>
    /\ ldFrame

\* Reload called on a loader that has loaded before
Reload ==
    /\ ld_result # "not_called"
    /\ LoadAll

\* a profile file is written, replaced or deleted
EditFile ==
    /\ ld_edits < MaxEdits
    /\ ld_result # "not_called"
    /\ \E id \in Ids : \E f \in FileMenu :
          /\ f # ld_dir[id]
          /\ ld_dir' = [ld_dir EXCEPT ![id] = f]
    /\ ld_dir' \in Directories
    /\ ld_edits' = ld_edits + 1
    /\ UNCHANGED <<ld_readable, ld_registry, ld_result, ld_before>>
    /\ ldFrame

\* the directory is taken away from the loader (permissions, unmount)
LoseDirectory ==
    /\ ld_edits < MaxEdits
    /\ ld_result # "not_called"
    /\ ld_readable
    /\ ld_readable' = FALSE
    /\ ld_edits' = ld_edits + 1
    /\ UNCHANGED <<ld_dir, ld_registry, ld_result, ld_before>>
    /\ ldFrame

ldIdle ==
    /\ ld_dir = [id \in Ids |-> NoFile]
    /\ ld_readable = TRUE
    /\ ld_registry = EmptyRegistry
    /\ ld_result = "not_called"
    /\ ld_before = EmptyRegistry
    /\ ld_edits = 0


(***************************************************************************)
(* Action planner and mailbox (internal/gmail: ModifyLabels). A label is a *)
(* tuple: <<name>> for a system or user label, <<"MailSentinel", profile,  *)
(* action>> for a provenance label.                                        *)
(***************************************************************************)
INBOX == <<"INBOX">>
STARRED == <<"STARRED">>
UNREAD == <<"UNREAD">>

\* the label X of the action label:X
LabelX == <<"x">>

Provenance(decision) == <<"MailSentinel", decision.profile, decision.action>>

Decisions == [action : Actions, profile : {"spam", "alerts"}]

\* the labels a message can carry when the decision is made
LabelSets(decision) == SUBSET {INBOX, STARRED, UNREAD, LabelX, Provenance(decision)}

\* the labels the decision wants present
Ensure(decision) ==
    (IF decision.action = "star" THEN {STARRED} ELSE {})
    \cup (IF decision.action = "label:x" THEN {LabelX} ELSE {})
    \cup (IF decision.action # "none" THEN {Provenance(decision)} ELSE {})

\* the labels the decision wants absent
Absent(decision) == IF decision.action = "archive" THEN {INBOX} ELSE {}

\* the operation set planned for a decision against the current labels
PlanOps(decision, labels) ==
    [add |-> Ensure(decision) \ labels, remove |-> Absent(decision) \cap labels]

\* idempotent:noop
NoOps(ops) == ops.add = {} /\ ops.remove = {}

\* the label state the decision is meant to bring about from `labels`
Intended(decision, labels) == (labels \ Absent(decision)) \cup Ensure(decision)

\* the message's labels after Users.Messages.Modify with AddLabelIds and
\* RemoveLabelIds
ModifyLabelsAddOnly(labels, addLabels, removeLabels) == labels \cup addLabels
ModifyLabels(labels, addLabels, removeLabels) == (labels \ removeLabels) \cup addLabels

plInit ==
    /\ pl_decision \in Decisions
    /\ pl_labels \in LabelSets(pl_decision)
    /\ pl_start = pl_labels
    /\ pl_applies = 0
    /\ pl_partial = FALSE
    /\ pl_replayCalls = 0

\* the decision is planned against the current labels and the planned
\* operations are dispatched; an empty plan dispatches nothing, a ModifyLabels
\* call that returns an error changes nothing
ApplyDecision ==
    /\ pl_applies < MaxApplies
    /\ LET ops == PlanOps(pl_decision, pl_labels)
       IN IF NoOps(ops)
          THEN /\ pl_applies' = pl_applies + 1
               /\ UNCHANGED <<pl_labels, pl_replayCalls>>
          ELSE \E ok \in BOOLEAN :
                /\ pl_labels' = IF ok THEN ModifyLabels(pl_labels, ops.add, ops.remove)
                                ELSE pl_labels
                /\ pl_applies' = IF ok THEN pl_applies + 1 ELSE pl_applies
                /\ pl_replayCalls' = IF pl_applies > 0 THEN pl_replayCalls + 1
                                     ELSE pl_replayCalls
    /\ UNCHANGED <<pl_decision, pl_start, pl_partial>>
    /\ plFrame

\* an application that is cut short: only part of the planned operations
\* reach the mailbox
ApplyPartially ==
    /\ LET ops == PlanOps(pl_decision, pl_labels)
       IN \E add \in SUBSET ops.add : \E remove \in SUBSET ops.remove :
            /\ add \cup remove # {}
            /\ add \cup remove # ops.add \cup ops.remove
            /\ pl_labels' = ModifyLabels(pl_labels, add, remove)
    /\ pl_partial' = TRUE
    /\ pl_replayCalls' = IF pl_applies > 0 THEN pl_replayCalls + 1 ELSE pl_replayCalls
    /\ UNCHANGED <<pl_decision, pl_start, pl_applies>>
    /\ plFrame

plNext ==
    \/ ApplyDecision
    \/ ApplyPartially

plIdle ==
    /\ pl_decision = [action |-> "none", profile |-> "spam"]
    /\ pl_labels = {}
    /\ pl_start = {}
    /\ pl_applies = 0
    /\ pl_partial = FALSE
    /\ pl_replayCalls = 0

(***************************************************************************)
(* Response parser (Client.parseClassificationResponse). The model's       *)
(* answer is taken by what the parser looks at: whether the text holds a   *)
(* JSON object, and what the fields action, confidence and reasoning of    *)
(* the object are (absent, a JSON string, a JSON number).                  *)
(***************************************************************************)
Field(kind, val) == [kind |-> kind, val |-> val]

\* the answers of the model: no `{...}` in the text, a text that does not
\* unmarshal, or an object with some fields
Outputs ==
    [json : {"none", "malformed", "object"},
     action : {Field("absent", ""), Field("number", "")}
              \cup {Field("string", a) : a \in {"archive", "star", "delete", ""}},
     confidence : {Field("absent", 0), Field("string", 0)}
                  \cup {Field("number", c) : c \in {-100, 0, 300, 900, 1000, 1500}},
     reasoning : {Field("absent", ""), Field("string", "why")}]

\* response.validation of a profile: required_fields, confidence_range (in
\* thousandths) and allowed_actions (empty when the profile leaves it out)
Validations ==
    [required_fields : {{"action", "confidence"}, {"action", "confidence", "reasoning"}},
     confidence_range : {<<0, 1000>>, <<500, 1000>>},
     allowed_actions : {{}, {"none", "archive"}}]

\* parseClassificationResponse(response, profile)
parseClassificationResponse(response, profile) ==
    IF response.json = "none" THEN [err |-> "no valid JSON found in response"]
    ELSE IF response.json = "malformed" THEN [err |-> "failed to parse JSON response"]
    ELSE IF response.action.kind # "string" THEN [err |-> "missing or invalid 'action'"]
    ELSE IF response.confidence.kind # "number"
    THEN [err |-> "missing or invalid 'confidence'"]
    ELSE IF response.confidence.val < 0 \/ response.confidence.val > One
    THEN [err |-> "confidence must be between 0.0 and 1.0"]
    ELSE [err |-> "",
          action |-> response.action.val,
          confidence |-> response.confidence.val,
          reasoning |-> IF response.reasoning.kind = "string" THEN response.reasoning.val
                        ELSE "No reasoning provided"]

NotParsed == [err |-> "not_called"]

psInit ==
    /\ ps_output \in Outputs
    /\ ps_profile \in Validations
    /\ ps_result = NotParsed

\* ClassifyEmail hands the answer of generate to the parser
Parse ==
    /\ ps_result = NotParsed
    /\ ps_result' = parseClassificationResponse(ps_output, ps_profile)
    /\ UNCHANGED <<ps_output, ps_profile>>
    /\ psFrame

psIdle ==
    /\ ps_output = [json |-> "none", action |-> Field("absent", ""),
                    confidence |-> Field("absent", 0), reasoning |-> Field("absent", "")]
    /\ ps_profile = [required_fields |-> {}, confidence_range |-> <<0, 0>>,
                     allowed_actions |-> {}]
    /\ ps_result = NotParsed

(***************************************************************************)
(* Profile validation (Loader.validateProfile), rule by rule. A string     *)
(* field is taken by whether it is empty; a float64 field is a fraction of *)
(* thousandths, NaN included (yaml.v3 decodes `.nan` to it), and a         *)
(* comparison with NaN on either side is false.                            *)
(***************************************************************************)
NaN == Rat(0, 0)

\* the float64 of n thousandths
Float(n) == Rat(n, 1)

\* float64 `a >= b`
RatGE(a, b) == a.den # 0 /\ b.den # 0 /\ a.num * b.den >= b.num * a.den

\* the profiles validateProfile is given: what yaml.Unmarshal can decode
\* from a file (an absent field is the zero value)
ValidatedProfiles ==
    [id : {"", "spam"}, version : {"", "1.0"}, model : {"", "llama"}, system : {"", "prompt"},
     confidence_range : {<<lo, hi>> : lo \in {NaN} \cup {Float(n) : n \in {-100, 0, 500, 1000}},
                                      hi \in {NaN} \cup {Float(n) : n \in {0, 500, 1000, 1100}}},
     temperature : {NaN} \cup {Float(n) : n \in {-100, 0, 700, 2000, 2100}},
     max_tokens : {-1, 0, 500},
     timeout_seconds : {-1, 0, 30}]

\* validateProfile(profile): the message of the error it returns ("" for nil)
validateProfileRules(profile) ==
    IF profile.id = "" THEN "profile ID is required"
    ELSE IF profile.version = "" THEN "profile version is required"
    ELSE IF profile.model = "" THEN "profile model is required"
    ELSE IF profile.system = "" THEN "profile system prompt is required"
    ELSE IF \/ RatGT(Float(0), profile.confidence_range[1])
            \/ RatGT(profile.confidence_range[2], Float(One))
    THEN "confidence range must be between 0 and 1"
    ELSE IF RatGE(profile.confidence_range[1], profile.confidence_range[2])
    THEN "confidence range minimum must be less than maximum"
    ELSE IF RatGT(Float(0), profile.temperature) \/ RatGT(profile.temperature, Float(2 * One))
    THEN "temperature must be between 0 and 2"
    ELSE IF profile.max_tokens <= 0 THEN "max_tokens must be positive"
    ELSE IF profile.timeout_seconds <= 0 THEN "timeout_seconds must be positive"
    ELSE ""

NotValidated == "not_called"

vpInit ==
    /\ vp_profile \in ValidatedProfiles
    /\ vp_result = NotValidated

\* loadProfileFile hands the decoded profile to validateProfile, which reads
\* it and assigns to none of its fields
Validate ==
    /\ vp_result = NotValidated
    /\ vp_result' = validateProfileRules(vp_profile)
    /\ UNCHANGED vp_profile
    /\ vpFrame

vpIdle ==
    /\ vp_profile = [id |-> "", version |-> "", model |-> "", system |-> "",
                     confidence_range |-> <<Float(0), Float(0)>>, temperature |-> Float(0),
                     max_tokens |-> 0, timeout_seconds |-> 0]
    /\ vp_result = NotValidated

rsInit ==
    /\ rs_email \in TrustHeaders
    /\ rs_results \in ResultLists
    /\ rs_config \in ResolverConfigs
    /\ rs_decision = NotCalled
    /\ rs_previous = NotCalled

\* one call of ResolveDecision on the fixed input
Resolve ==
    /\ \E order \in Perms(ActionsOf(rs_results)) :
          rs_decision' = ResolveDecision(rs_config, rs_email, rs_results, order)
    /\ rs_previous' = rs_decision
    /\ UNCHANGED <<rs_email, rs_results, rs_config>>
    /\ rsFrame

rsIdle ==
    /\ rs_email = ""
    /\ rs_results = << >>
    /\ rs_config = [method |-> "", weights |-> << >>, rules |-> << >>]
    /\ rs_decision = NotCalled
    /\ rs_previous = NotCalled

auIdle ==
    /\ au_config = [enabled |-> FALSE, integrity_check |-> FALSE, keyed |-> FALSE]
    /\ au_file = << >>
    /\ au_open = FALSE
    /\ au_lastHash = NoHash
    /\ au_entryCount = 0
    /\ au_clock = 0
    /\ au_tampered = FALSE
    /\ au_lost = FALSE
    /\ au_verify = NotVerified
    /\ au_workers = [w \in Workers |-> Resting]

InitResolver == rsInit /\ auIdle /\ cbIdle /\ ldIdle /\ plIdle /\ psIdle /\ vpIdle

\* the decision resolver on every input of the menus
SpecResolver == InitResolver /\ [][Resolve]_vars

\* one audit logger, its callers one at a time
InitAudit == auInit /\ rsIdle /\ cbIdle /\ ldIdle /\ plIdle /\ psIdle /\ vpIdle

SpecAudit == InitAudit /\ [][auNext]_vars

\* one audit logger shared by two workers
SpecAuditWorkers == InitAudit /\ [][workersNext]_vars

\* one audit file, the logger on it closed and built anew
SpecRestart == InitAudit /\ [][restartNext]_vars

\* one classifier gateway, two callers that may overlap
InitBreaker == cbInit /\ rsIdle /\ auIdle /\ ldIdle /\ plIdle /\ psIdle /\ vpIdle

SpecBreaker == InitBreaker /\ [][cbNext]_vars

InitLoader == ldInit /\ rsIdle /\ auIdle /\ cbIdle /\ plIdle /\ psIdle /\ vpIdle

\* one loader on a directory that stays as it is
SpecLoader == InitLoader /\ [][LoadAll]_vars

\* one loader, loaded once, on a directory that changes before it is reloaded
reloadNext ==
    \/ ld_result = "not_called" /\ LoadAll
    \/ Reload
    \/ EditFile
    \/ LoseDirectory

InitReload == reloadInit /\ rsIdle /\ auIdle /\ cbIdle /\ plIdle /\ psIdle /\ vpIdle

SpecReload == InitReload /\ [][reloadNext]_vars

InitMerge == mergeInit /\ rsIdle /\ auIdle /\ cbIdle /\ plIdle /\ psIdle /\ vpIdle

\* the first LoadAll of a loader
FirstLoad == ld_result = "not_called" /\ LoadAll

\* one loader on a directory of profiles that inherit from one another
SpecMerge == InitMerge /\ [][FirstLoad]_vars

InitPlanner == plInit /\ rsIdle /\ auIdle /\ cbIdle /\ ldIdle /\ psIdle /\ vpIdle

\* one decision applied to one message, which nothing else relabels meanwhile
SpecPlanner == InitPlanner /\ [][plNext]_vars

InitParse == psInit /\ rsIdle /\ auIdle /\ cbIdle /\ ldIdle /\ plIdle /\ vpIdle

\* the response parser on every answer and every validation block of the menus
SpecParse == InitParse /\ [][Parse]_vars

InitValidate == vpInit /\ rsIdle /\ auIdle /\ cbIdle /\ ldIdle /\ plIdle /\ psIdle

\* validateProfile on every profile of the menu
SpecValidate == InitValidate /\ [][Validate]_vars

(***************************************************************************)
(* Properties of the decision resolver, checked under SpecResolver.        *)
(***************************************************************************)
\* confidence gates of the documented resolver configuration, in thousandths
ArchiveGate == 850
StarGate == 700
LabelGate == 600

\* the gate of an action; 0 for `none` and for an action that is none of the three
GateOf(action) ==
    CASE action = "archive" -> ArchiveGate
      [] action = "star" -> StarGate
      [] action = "label:x" -> LabelGate
      [] OTHER -> 0

\* a call returned a decision (not an error)
Decided(d) == d # NotCalled /\ ~d.err /\ ~d.none

SameDecision(a, b) ==
    IF Decided(a) /\ Decided(b)
    THEN a.action = b.action /\ RatSame(a.conf, b.conf)
    ELSE a = b

\* C1 (safety gates): a decision returned by ResolveDecision that did not come
\* from a priority rule never carries archive, star or a label with a
\* confidence below the gate of that action: such a decision is `none`.
C1_SafetyGates ==
    (Decided(rs_decision) /\ rs_decision.path # "priority")
        => ~RatGT(Rat(GateOf(rs_decision.action), 1), rs_decision.conf)

\* C10 (decision determinism): two calls of ResolveDecision on the same email,
\* the same ordered responses and the same configuration return the same
\* action and the same confidence, whatever the weighting method.
C10_Deterministic ==
    (rs_previous # NotCalled /\ rs_decision # NotCalled)
        => SameDecision(rs_previous, rs_decision)

\* the greatest confidence among the responses voting for an action
TopConf(results, action) ==
    LET group == Group(results, action)
    IN group[HighestIndex(group)].conf

\* the margin by which archive has to lead star to win, in thousandths
ArchiveMargin == 200

\* C15 (star/archive reconciliation): when the responses hold a star candidate
\* and an archive candidate and no priority rule decides, the decision is
\* archive if the archive candidate's confidence exceeds the star candidate's
\* by at least 0.2, and star otherwise.
C15_StarArchive ==
    (Decided(rs_decision) /\ rs_decision.path # "priority"
     /\ {"star", "archive"} \subseteq ActionsOf(rs_results))
        => rs_decision.action =
              (IF TopConf(rs_results, "archive") - TopConf(rs_results, "star") >= ArchiveMargin
               THEN "archive" ELSE "star")

\* the rules of the configuration whose condition holds
MatchingRules(config, email, results) ==
    {k \in DOMAIN config.rules : evaluateCondition(config.rules[k].condition, email, results)}

\* the matching rule of greatest priority, the one declared first among equals
WinningRule(config, hit) ==
    config.rules[CHOOSE k \in hit :
                    \A j \in hit : \/ config.rules[j].priority < config.rules[k].priority
                                   \/ (config.rules[j].priority = config.rules[k].priority
                                       /\ k <= j)]

\* C16 (priority-rule ordering): a call of ResolveDecision that returns a
\* decision returns the decision of the matching priority rule of greatest
\* priority, the earlier declared of two matching rules of equal priority;
\* only when no rule matches does the decision come from the responses.
C16_PriorityOrder ==
    (rs_decision # NotCalled /\ ~rs_decision.err) =>
        LET hit == MatchingRules(rs_config, rs_email, rs_results)
        IN IF hit = {} THEN rs_decision.path # "priority"
           ELSE rs_decision = RuleDecision(WinningRule(rs_config, hit), rs_results)

\* C17 (weighted-average consensus): a decision made by weighted average
\* carries an action whose sum of weight times confidence over the responses
\* voting for it (each weight applied once, 1 for a profile without one) is
\* the greatest, and as confidence that sum divided by the sum of the weights.
C17_WeightedAverage ==
    (Decided(rs_decision) /\ rs_decision.path = "weighted") =>
        \E a \in ActionsOf(rs_results) :
            LET mine == GroupConfidence(rs_config, Group(rs_results, a))
            IN /\ rs_decision.action = a
               /\ RatSame(rs_decision.conf, mine)
               /\ \A b \in ActionsOf(rs_results) :
                    GroupConfidence(rs_config, Group(rs_results, b)).num <= mine.num

\* C24 (priority-rule outcome): a decision made by a priority rule carries the
\* action the matching rule configures and the rule's reason as its
\* reasoning, with or without a confidence boost; the boost changes the
\* confidence only.
C24_RuleOutcome ==
    (Decided(rs_decision) /\ rs_decision.path = "priority") =>
        LET rule == WinningRule(rs_config, MatchingRules(rs_config, rs_email, rs_results))
        IN /\ rs_decision.action = rule.action
           /\ rs_decision.reasoning = <<"rule", rule.reason>>

\* C26 (`none` never wins over a real action): when some response proposes
\* an action other than `none` and no priority rule decides, the decision is
\* not `none`, however confident or numerous the `none` responses are and
\* whatever the weighting method.
C26_NoneNeverWins ==
    (Decided(rs_decision) /\ rs_decision.path # "priority"
     /\ ActionsOf(rs_results) \ {"none"} # {})
        => rs_decision.action # "none"

\* C28 (decision well-formed): for two or more responses none of which a
\* priority rule overrides, the decision carries the action of at least one
\* response and a confidence that is a number, under every weighting method,
\* also when every confidence is 0 and when a profile's weight is 0.
C28_WellFormedDecision ==
    (Decided(rs_decision) /\ Len(rs_results) >= 2 /\ rs_decision.path # "priority") =>
        /\ rs_decision.action \in ActionsOf(rs_results)
        /\ rs_decision.conf.den # 0

ChainIntact(file) ==
    \A i \in DOMAIN file :
        /\ file[i].hash = calculateHash(file[i])
        /\ file[i].prev_hash = (IF i = 1 THEN NoHash ELSE file[i - 1].hash)

\* zero-based index of the first entry of the file that breaks the chain
FirstBadIndex(file) ==
    LET bad == {i \in DOMAIN file :
                    \/ file[i].hash # calculateHash(file[i])
                    \/ file[i].prev_hash # (IF i = 1 THEN NoHash ELSE file[i - 1].hash)}
    IN (CHOOSE i \in bad : \A j \in bad : i <= j) - 1

\* C2 (chain integrity): on an enabled logger whose writes all reached the file,
\* and whose file nobody else touched, the file is an intact hash chain after
\* any sequence of the logger's public write operations.
C2_ChainIntegrity ==
    (au_config.enabled /\ ~au_tampered /\ ~au_lost) => ChainIntact(au_file)

\* C3 (tamper detection): with integrity checking enabled, a verification made
\* after a non-terminal entry of the file was altered, removed or moved
\* reports a failure naming the first bad entry, never success.
C3_TamperDetected ==
    (au_config.enabled /\ au_config.integrity_check /\ au_tampered /\ ~au_lost
     /\ au_verify # NotVerified /\ ~ChainIntact(au_file))
        => (~au_verify.ok /\ au_verify.index = FirstBadIndex(au_file))

\* C11 (serialized chain under concurrency): when workers log concurrently and
\* every write reaches the file, each entry's prev_hash is the hash of the
\* entry written immediately before it, and no two entries of the file carry
\* the same prev_hash.
C11_SerializedChain ==
    (au_config.enabled /\ ~au_tampered /\ ~au_lost) =>
        /\ \A i \in 2..Len(au_file) : au_file[i].prev_hash = au_file[i - 1].hash
        /\ \A i, j \in DOMAIN au_file :
                au_file[i].prev_hash = au_file[j].prev_hash => i = j

\* C27 (chain continuity across restart): the entry a new logger appends first
\* to the file a closed logger left (whose last entry is the system_stop
\* event of Close) carries the hash of that last entry as prev_hash, and is no
\* second genesis entry.
C27_RestartContinuity ==
    (au_config.enabled /\ ~au_lost) =>
        \A i \in 1..(Len(au_file) - 1) :
            au_file[i].event_type = EventSystemStop =>
                /\ au_file[i + 1].prev_hash = au_file[i].hash
                /\ au_file[i + 1].event_type # "chain_genesis"

\* the entries of the file that were written as links of the chain
ChainedEntries(file) == SelectSeq(file, LAMBDA e : e.hash # NoHash)

\* C29 (failed write leaves the chain state unchanged): whether or not writes
\* have failed, the logger's chain head is the hash of the last chained entry
\* that is in the file and entryCount is the number of chained entries written
\* after the genesis entry: a call whose writeEntry returned an error moved
\* neither.
C29_FailedWriteKeepsHead ==
    (au_config.enabled /\ ~au_tampered) =>
        LET chained == ChainedEntries(au_file)
        IN /\ au_lastHash = chained[Len(chained)].hash
           /\ au_entryCount = Len(chained) - 1

(***************************************************************************)
(* Properties of the response parser, checked under SpecParse.             *)
(***************************************************************************)
\* the action tokens a profile allows: its allowed_actions, or the engine's
\* own tokens when the profile lists none
AllowedActions(profile) ==
    IF profile.allowed_actions = {} THEN Actions ELSE profile.allowed_actions

\* C12 (schema validation): a response returned without error had every
\* required field of the profile present in the model's answer, carries an
\* action token of the allowed set and a confidence within the profile's
\* confidence_range; any other answer yields an error.
C12_SchemaValidated ==
    (ps_result # NotParsed /\ ps_result.err = "") =>
        /\ \A f \in ps_profile.required_fields : ps_output[f].kind # "absent"
        /\ ps_result.action \in AllowedActions(ps_profile)
        /\ ps_result.confidence >= ps_profile.confidence_range[1]
        /\ ps_result.confidence <= ps_profile.confidence_range[2]

(***************************************************************************)
(* Properties of the classifier gateway, checked under SpecBreaker.        *)
(***************************************************************************)
\* the number of trial calls a half-open breaker is to admit: the configured
\* max_requests, which is to be 1 in the default configuration
TrialLimit(cfg) == IF cfg = DefaultBreaker THEN 1 ELSE maxRequests(cfg)

\* C4 (trip and fail-fast): once ready_to_trip classifier calls in a row have
\* failed on a closed breaker the breaker is open, and a call that finds the
\* breaker open within its timeout is turned away with the breaker-open error
\* and sends nothing to the endpoint.
C4_TripAndFailFast ==
    /\ cb_streak >= cb_cfg.readyToTrip => cb_state = StateOpen
    /\ (cb_begin.made /\ cb_begin.before = StateOpen /\ cb_begin.at <= cb_begin.expiry)
            => (cb_begin.err = "breaker_open" /\ ~cb_begin.sent)

\* C5 (half-open admission): a half-open breaker has admitted no more trial
\* calls than its limit, has not yet seen all of them succeed, and a trial call
\* that ended in failure left the breaker open.
C5_HalfOpenTrials ==
    /\ cb_state = StateHalfOpen =>
            /\ cb_counts.requests <= TrialLimit(cb_cfg)
            /\ cb_counts.consecutiveSuccesses < TrialLimit(cb_cfg)
    /\ (cb_end.made /\ cb_end.admitted = StateHalfOpen /\ cb_end.current /\ cb_end.failed)
            => cb_end.after = StateOpen

\* C13 (retry policy): a ClassifyEmail call that was let through to the
\* endpoint invokes it between 1 and 1+R times, R the configured number of
\* retries, and a call that ended in a transport or schema error (its context
\* live, R >= 1) has invoked it more than once.
C13_RetryPolicy ==
    cb_end.made =>
        /\ cb_end.sends >= 1
        /\ cb_end.sends <= 1 + DefaultMaxRetries
        /\ (cb_end.failed /\ DefaultMaxRetries >= 1) => cb_end.sends > 1

\* C14 (breaker failure accounting): a classification that ended in a
\* transport error or in a schema error, and whose result the breaker did not
\* drop as belonging to an older generation, was counted by the breaker as a
\* failure, never as a success.
C14_FailureAccounting ==
    (cb_end.made /\ cb_end.failed /\ cb_end.counted # "dropped")
        => cb_end.counted = "failure"

(***************************************************************************)
(* Properties of the profile loader, checked under SpecLoader and          *)
(* SpecReload.                                                             *)
(***************************************************************************)
\* the profiles a profile names: its parent and its explicit dependencies
Named(profiles, id) ==
    ({profiles[id].inherits} \ {""}) \cup Range(profiles[id].depends_on)

\* the profiles reached from the set `from` along the edges, `from` left out
\* unless an edge leads back into it
RECURSIVE ReachedFrom(_, _, _)
ReachedFrom(profiles, from, seen) ==
    LET next == UNION {Named(profiles, id) : id \in from \cap DOMAIN profiles}
    IN IF next \subseteq seen THEN seen
       ELSE ReachedFrom(profiles, next \ seen, seen \cup next)

Reach(profiles, id) == ReachedFrom(profiles, {id}, {})

Position(order, id) == CHOOSE k \in DOMAIN order : order[k] = id

\* the profiles of the directory that lie on a dependency cycle
OnCycle(profiles) == {id \in DOMAIN profiles : id \in Reach(profiles, id)}

\* a directory whose files are all valid profiles naming only profiles that
\* are there
OtherwiseValid(dir) ==
    /\ \A id \in Ids : dir[id].present => validateProfile(dir[id])
    /\ \A id \in DOMAIN ReadProfiles(dir) :
            Named(ReadProfiles(dir), id) \subseteq DOMAIN ReadProfiles(dir)

\* C6 (dependency order): after a successful load, LoadOrder holds every
\* loaded profile exactly once, and every profile reached from a profile P
\* through inherits_from and depends_on edges stands before P in it.
C6_DependencyOrder ==
    ld_result = "ok" =>
        LET profiles == ld_registry.profiles
            order == ld_registry.loadOrder
        IN /\ Len(order) = Cardinality(DOMAIN profiles)
           /\ Range(order) = DOMAIN profiles
           /\ \A P \in DOMAIN profiles : \A Q \in Reach(profiles, P) :
                /\ Q \in Range(order)
                /\ Position(order, Q) < Position(order, P)

\* a successful load of a profile that reaches another one only through a third
C6_Witness ==
    /\ ld_result = "ok"
    /\ \E P \in DOMAIN ld_registry.profiles :
            Reach(ld_registry.profiles, P) \ Named(ld_registry.profiles, P) # {}

\* C7 (cycle rejection): when otherwise valid profile files hold a dependency
\* cycle, LoadAll leaves the profiles on the cycle out of the registry and
\* loads the profiles that neither lie on a cycle nor lead to one.
C7_CycleQuarantine ==
    LET profiles == ReadProfiles(ld_dir)
        cycle == OnCycle(profiles)
    IN (ld_result # "not_called" /\ ld_readable /\ OtherwiseValid(ld_dir) /\ cycle # {})
        => /\ \A id \in cycle : ~GetProfile(ld_registry, id).found
           /\ \A id \in DOMAIN profiles :
                (id \notin cycle /\ Reach(profiles, id) \cap cycle = {})
                    => /\ GetProfile(ld_registry, id).found
                       /\ id \in Range(ld_registry.loadOrder)

\* C8 (atomic reload): after a LoadAll or Reload that returned an error,
\* GetProfile, ListProfiles and LoadOrder answer as they did before the call.
C8_AtomicReload ==
    ld_result \notin {"not_called", "ok"} =>
        /\ \A id \in Ids : GetProfile(ld_registry, id) = GetProfile(ld_before, id)
        /\ ListProfiles(ld_registry) = ListProfiles(ld_before)
        /\ ld_registry.loadOrder = ld_before.loadOrder

ParamNames == {"temperature", "max_tokens", "timeout_seconds"}

\* C18 (inheritance of model parameters): after a successful load every
\* parameter of a profile with a parent is the value the profile's own file
\* sets, whatever legal value that is, and the parent's effective value when
\* the file leaves the parameter out.
C18_ParamInheritance ==
    ld_result = "ok" =>
        \A id \in DOMAIN ld_registry.profiles :
            LET profile == ld_registry.profiles[id]
            IN profile.inherits # "" =>
                \A P \in ParamNames :
                    profile[P] = (IF ld_dir[id].body[P].set THEN ld_dir[id].body[P].val
                                  ELSE ld_registry.profiles[profile.inherits][P])

\* the list a profile is to end up with: its parent's, then its own
RECURSIVE ExpectedList(_, _, _)
ExpectedList(dir, id, kind) ==
    (IF dir[id].inherits = "" THEN << >> ELSE ExpectedList(dir, dir[id].inherits, kind))
    \o dir[id].body[kind]

\* C19 (inheritance of lists): after a successful load the few-shot list and
\* the policy conditions of every profile are its parent's effective list
\* followed by its own elements, for every child of a shared parent and along
\* chains, and a profile without parent keeps the lists of its file.
C19_ListInheritance ==
    ld_result = "ok" =>
        \A id \in DOMAIN ld_registry.profiles : \A kind \in ListKinds :
            ld_registry.profiles[id][kind] = ExpectedList(ld_dir, id, kind)

\* the parsed profiles that name a profile which is not among them
MissingTarget(profiles) ==
    {id \in DOMAIN profiles : ~(Named(profiles, id) \subseteq DOMAIN profiles)}

\* C20 (missing dependency quarantine): when a parsed profile names an
\* inherits_from or depends_on target that is not among the parsed profiles
\* (and no cycle is involved), LoadAll succeeds, leaves that profile out of the
\* registry and loads every profile that neither names a missing target nor
\* leads to a profile that does.
C20_MissingQuarantine ==
    LET profiles == ReadProfiles(ld_dir)
        missing == MissingTarget(profiles)
    IN (ld_result # "not_called" /\ ld_readable /\ missing # {} /\ OnCycle(profiles) = {})
        => /\ ld_result = "ok"
           /\ \A id \in missing : ~GetProfile(ld_registry, id).found
           /\ \A id \in DOMAIN profiles \ missing :
                Reach(profiles, id) \cap missing = {} => GetProfile(ld_registry, id).found

\* C23 (cycle detection): over profiles that name only profiles that are
\* there, topologicalSort returns the circular-dependency error exactly when
\* the dependency graph holds a cycle (a profile depending on itself
\* included); with the error it returns no order, and without it an order
\* that holds every profile id exactly once.
C23_CycleDetection ==
    LET profiles == ReadProfiles(ld_dir)
        order == ld_registry.loadOrder
    IN (ld_result # "not_called" /\ ld_readable /\ MissingTarget(profiles) = {}) =>
        /\ ld_result = "circular_dependency" <=> OnCycle(profiles) # {}
        /\ ld_result = "circular_dependency" => order = << >>
        /\ ld_result # "circular_dependency" =>
                /\ ld_result = "ok"
                /\ Len(order) = Cardinality(DOMAIN profiles)
                /\ Range(order) = DOMAIN profiles

\* the error returned for a profile that depends on itself, next to a profile
\* that lies on no cycle
C23_Witness ==
    LET profiles == ReadProfiles(ld_dir)
    IN /\ ld_result = "circular_dependency"
       /\ MissingTarget(profiles) = {}
       /\ \E id \in DOMAIN profiles : id \in Named(profiles, id)
       /\ OnCycle(profiles) # DOMAIN profiles

\* C25 (system-prompt inheritance through LoadAll): after a successful load,
\* a profile whose file declares a loaded parent is in the registry with the
\* parent's system prompt followed by its own, and with the parent's prompt
\* alone when its file leaves `system` empty: such a child is loaded too.
C25_PromptInheritance ==
    ld_result = "ok" =>
        \A id \in DOMAIN ld_dir :
            LET file == ld_dir[id]
                parent == GetProfile(ld_registry, file.inherits)
                child == GetProfile(ld_registry, id)
            IN (file.present /\ validateProfile([file EXCEPT !.system = TRUE])
                /\ file.inherits # "" /\ parent.found) =>
                    /\ child.found
                    /\ child.profile.system =
                          parent.profile.system \o (IF file.system THEN <<id>> ELSE << >>)

\* the order that places, again and again, the lexicographically smallest of
\* the profiles whose named profiles have all been placed
RECURSIVE LexOrder(_, _)
LexOrder(profiles, placed) ==
    LET ready == {id \in DOMAIN profiles \ Range(placed) :
                        Named(profiles, id) \subseteq Range(placed)}
    IN IF ready = {} THEN placed
       ELSE LexOrder(profiles,
                     Append(placed, CHOOSE id \in ready : \A other \in ready :
                                Position(ProfileIds, id) <= Position(ProfileIds, other)))

\* C21 (load-order determinism): a successful load leaves the LoadOrder in
\* which, of the profiles that are ready at the same time, the one with the
\* lexicographically smallest id is placed first; so a second load of the same
\* directory leaves the LoadOrder of the first.
C21_LoadOrderDeterministic ==
    ld_result = "ok" =>
        /\ ld_registry.loadOrder = LexOrder(ReadProfiles(ld_dir), << >>)
        /\ ld_before.profiles # << >> => ld_registry.loadOrder = ld_before.loadOrder

(***************************************************************************)
(* Properties of profile validation, checked under SpecValidate.           *)
(***************************************************************************)
\* the float x is a number within [lo, hi] (thousandths)
Within(x, lo, hi) == x.den # 0 /\ lo * x.den <= x.num /\ x.num <= hi * x.den

\* the rules a profile has to meet, in the order in which they are checked
Rules(profile) ==
    <<profile.id # "", profile.version # "", profile.model # "", profile.system # "",
      /\ Within(profile.confidence_range[1], 0, One)
      /\ Within(profile.confidence_range[2], 0, One)
      /\ profile.confidence_range[1].num < profile.confidence_range[2].num,
      Within(profile.temperature, 0, 2 * One),
      profile.max_tokens > 0,
      profile.timeout_seconds > 0>>

\* the messages that name each rule
RuleErrors ==
    <<{"profile ID is required"}, {"profile version is required"},
      {"profile model is required"}, {"profile system prompt is required"},
      {"confidence range must be between 0 and 1",
       "confidence range minimum must be less than maximum"},
      {"temperature must be between 0 and 2"}, {"max_tokens must be positive"},
      {"timeout_seconds must be positive"}>>

\* C22 (profile validation): validateProfile accepts a profile exactly when id,
\* version, model and system are non-empty, the confidence range has
\* 0 <= lo < hi <= 1, the temperature lies within [0, 2], max_tokens > 0 and
\* timeout_seconds > 0; for any other profile its error names the first of
\* these rules, in this order, that the profile violates.
C22_ValidationRules ==
    vp_result # NotValidated =>
        LET broken == {k \in DOMAIN Rules(vp_profile) : ~Rules(vp_profile)[k]}
        IN IF broken = {} THEN vp_result = ""
           ELSE vp_result \in RuleErrors[CHOOSE k \in broken : \A j \in broken : k <= j]

(***************************************************************************)
(* Properties of the action planner, checked under SpecPlanner.            *)
(***************************************************************************)
\* C9 (idempotence of action planning): once a decision has been applied to a
\* message, planning it again against the message's labels yields no
\* operation and no ModifyLabels call is issued; and the labels are then those
\* the decision intends for the labels the message started from, also when an
\* earlier application was cut short.
C9_PlanIdempotent ==
    /\ pl_replayCalls = 0
    /\ pl_applies > 0 =>
            /\ NoOps(PlanOps(pl_decision, pl_labels))
            /\ pl_labels = Intended(pl_decision, pl_start)

\* a decision with several operations, cut short once, then applied and replayed
C9_Witness ==
    /\ pl_partial
    /\ pl_applies >= 2
    /\ pl_decision.action = "archive"
    /\ pl_labels # pl_start

====
